---- MODULE Spec2Model ----
(***************************************************************************)
(* SaturdayMorning: a model of saturdaymorning.py.                         *)
(*                                                                         *)
(* A name is a sequence of one-character strings, a path is a sequence of  *)
(* names, and the file system is a set of nodes [path, kind, id] where id  *)
(* is the path at which the node came into being (its identity, so that a  *)
(* replaced file can be told from the file it replaced).                   *)
(***************************************************************************)
EXTENDS Integers, Sequences, FiniteSets, TLC

VARIABLES
    fs,             \* the file system: a set of nodes [path, kind, id]
    content,        \* parsed text of each configuration file, by node id
    os_name,        \* os.name of the interpreter: "posix" or "nt"
    today,          \* self.today, as its weekday number '%w' (0 = Sunday)
    dry_run,        \* self.dry_run
    did_something,  \* self._did_something
    pc,             \* "idle" | "running" | "done" (exit 0) | "failed" (exit 1)
    stack,          \* pending calls _runOn(src, dst), innermost first
    log,            \* history: one record per call of _moveSubjects in this run
    nothing_to_do,  \* whether the last run logged "Nothing to do."
    fs0,            \* the file system when the current run started
    runs,           \* number of runs started so far
    did_before,     \* history: self._did_something as the current run found it
    names,          \* the names _get_episode_key is given, on its own
    keys,           \* what it returned for each of names so far
    rekeys          \* what it returned for each of keys so far

\* The object and its file system; the arguments and results of the key
\* function called on its own.
objvars == <<fs, content, os_name, today, dry_run, did_something, pc, stack, log,
             nothing_to_do, fs0, runs, did_before>>
keyvars == <<names, keys, rekeys>>

vars == <<objvars, keyvars>>

-----------------------------------------------------------------------------
(* Bounds *)

MaxRuns == 2

\* The longest digit run taken in every combination of KeyDigits, and the
\* longest digit run taken at all.
MaxShort == 3
MaxLong == 7

-----------------------------------------------------------------------------
(* Characters and names *)

Digits == {"0", "1", "2", "3", "4", "5", "6", "7", "8", "9"}

\* The code point of a character (Python compares str by code point).
ord(c) ==
    CASE c = "." -> 46
      [] c = "0" -> 48 [] c = "1" -> 49 [] c = "2" -> 50 [] c = "3" -> 51
      [] c = "4" -> 52 [] c = "5" -> 53 [] c = "6" -> 54 [] c = "7" -> 55
      [] c = "8" -> 56 [] c = "9" -> 57
      [] c = "R" -> 82 [] c = "S" -> 83 [] c = "X" -> 88 [] c = "Y" -> 89
      [] c = "Z" -> 90
      [] c = "a" -> 97 [] c = "c" -> 99 [] c = "d" -> 100 [] c = "e" -> 101
      [] c = "h" -> 104 [] c = "l" -> 108 [] c = "m" -> 109 [] c = "n" -> 110
      [] c = "o" -> 111 [] c = "r" -> 114 [] c = "s" -> 115 [] c = "t" -> 116

\* a < b for Python str.
RECURSIVE StrLess(_, _)
StrLess(a, b) ==
    IF b = <<>> THEN FALSE
    ELSE IF a = <<>> THEN TRUE
    ELSE IF ord(a[1]) # ord(b[1]) THEN ord(a[1]) < ord(b[1])
    ELSE StrLess(Tail(a), Tail(b))

CONF_NAME == <<".", "s", "a", "t", "m", "o", "n", "r", "c">>
CONF_SECTION_DEFAULT == <<"a", "l", "l">>
DAY_NAMES == <<"sunday", "monday", "tuesday", "wednesday", "thursday",
               "friday", "saturday">>
SUBJECT_SIBLINGS == "siblings"
SUBJECT_NEPHEWS == "nephews"

\* Python's None where a name is expected (falsy, like the empty string).
None == <<>>

-----------------------------------------------------------------------------
(* Paths and the file system *)

join(dir, entry) == Append(dir, entry)

split_head(path) == SubSeq(path, 1, Len(path) - 1)

IsPrefix(p, q) == Len(p) <= Len(q) /\ SubSeq(q, 1, Len(p)) = p

exists(f, path) == \E n \in f : n.path = path

isdir(f, path) == \E n \in f : n.path = path /\ n.kind = "dir"

isfile(f, path) == \E n \in f : n.path = path /\ n.kind = "file"

\* The names os.listdir(path) returns, in no particular order.
listdir(f, path) ==
    {n.path[Len(n.path)] : n \in {m \in f : Len(m.path) = Len(path) + 1
                                           /\ IsPrefix(path, m.path)}}

\* Every order os.listdir can return the names S in.
RECURSIVE Orders(_)
Orders(S) ==
    IF S = {} THEN {<<>>}
    ELSE UNION {{<<m>> \o t : t \in Orders(S \ {m})} : m \in S}

\* The node at path and everything beneath it.
Subtree(f, path) == {n \in f : IsPrefix(path, n.path)}

-----------------------------------------------------------------------------
(* Ordering keys and entry selection *)

\* Length of the match of number_suffix_re = \d+$ (0: no match).
RECURSIVE number_suffix_len(_)
number_suffix_len(path) ==
    IF path = <<>> \/ path[Len(path)] \notin Digits THEN 0
    ELSE 1 + number_suffix_len(split_head(path))

\* What a failed `assert padlen >= 0` yields instead of a key.
AssertionError == <<"AssertionError">>

Zeros(n) == [i \in 1..n |-> "0"]

\* _get_episode_key with the zeros put after the digits.
_get_episode_key_pad_after(path) ==
    LET n      == number_suffix_len(path)
        padlen == 6 - n
    IN  IF n > 0
        THEN IF padlen >= 0 THEN path \o Zeros(padlen) ELSE AssertionError
        ELSE path

\* _get_episode_key asserting that there is something to pad.
_get_episode_key_strict(path) ==
    LET n      == number_suffix_len(path)
        start  == Len(path) - n
        padlen == 6 - n
    IN  IF n > 0
        THEN IF padlen > 0
             THEN SubSeq(path, 1, start) \o Zeros(padlen)
                      \o SubSeq(path, start + 1, Len(path))
             ELSE AssertionError
        ELSE path

_get_episode_key(path) ==
    LET n      == number_suffix_len(path)
        start  == Len(path) - n
        padlen == 6 - n
    IN  IF n > 0
        THEN IF padlen >= 0
             THEN SubSeq(path, 1, start) \o Zeros(padlen)
                      \o SubSeq(path, start + 1, Len(path))
             ELSE AssertionError
        ELSE path

\* sorted(os.listdir(path))[...]: the first name, in raw str order, that does
\* not start with a dot; None when there is none.
_get_first_entry(f, path) ==
    LET shown == {e \in listdir(f, path) : e[1] # "."}
    IN  IF shown = {} THEN None
        ELSE CHOOSE e \in shown : \A o \in shown \ {e} : StrLess(e, o)

\* The sequences sorted(S, key=_get_episode_key) can return: sorted() is
\* stable, so names with equal keys keep the order os.listdir gave them,
\* which is any order.
RECURSIVE SortedByKey(_)
SortedByKey(S) ==
    IF S = {} THEN {<<>>}
    ELSE UNION {{<<m>> \o t : t \in SortedByKey(S \ {m})} :
                m \in {x \in S : \A y \in S :
                          ~StrLess(_get_episode_key(y), _get_episode_key(x))}}

\* _get_ordered_entries with the filter left out.
_get_ordered_entries_unfiltered(f, path) ==
    IF \E e \in listdir(f, path) : _get_episode_key(e) = AssertionError THEN {}
    ELSE SortedByKey(listdir(f, path))

\* _get_ordered_entries with the key left out of sorted().
_get_ordered_entries_unkeyed(f, path) ==
    LET shown == {e \in listdir(f, path) : e[1] # "."}
    IN  {s \in Orders(shown) :
            \A i \in 1..(Len(s) - 1) : StrLess(s[i], s[i + 1])}

\* The results _get_ordered_entries(path) can have; {} when a key asserts.
_get_ordered_entries(f, path) ==
    LET shown == {e \in listdir(f, path) : e[1] # "."}
    IN  IF \E e \in shown : _get_episode_key(e) = AssertionError THEN {}
        ELSE SortedByKey(shown)

-----------------------------------------------------------------------------
(* Configuration *)

\* A parsed configuration: section name -> (option -> value).
DEFAULTS == CONF_SECTION_DEFAULT :> [move |-> "newphews", schedule |-> ""]

\* dict.update: d with every item of o set in it.
dict_update(d, o) ==
    [k \in DOMAIN d \cup DOMAIN o |-> IF k \in DOMAIN o THEN o[k] ELSE d[k]]

\* config.read_string(DEFAULTS) followed by config.readfp(fp).
read_config(file) ==
    [s \in DOMAIN DEFAULTS \cup DOMAIN file |->
        IF s \in DOMAIN DEFAULTS /\ s \in DOMAIN file
        THEN dict_update(DEFAULTS[s], file[s])
        ELSE IF s \in DOMAIN file THEN file[s] ELSE DEFAULTS[s]]

\* The parsed text of the file at path.
read_file(f, c, path) == c[(CHOOSE n \in f : n.path = path).id]

-----------------------------------------------------------------------------
(* The schedule *)

\* DAY_NAMES.index(schedule), 0-based.
day_index(schedule) == (CHOOSE i \in 1..7 : DAY_NAMES[i] = schedule) - 1

\* move_decision with the week's working days ending a day early.
move_decision_short_week(schedule, weekday_num) ==
    IF schedule = "daily" THEN [do_move |-> TRUE, move_reason |-> "the schedule is daily."]
    ELSE IF schedule = "weekday"
    THEN IF weekday_num > 0 /\ weekday_num < 5
         THEN [do_move |-> TRUE, move_reason |-> "today is a weekday"]
         ELSE [do_move |-> FALSE, move_reason |-> "today is not a weekday"]
    ELSE IF \E i \in 1..7 : DAY_NAMES[i] = schedule
    THEN IF day_index(schedule) = weekday_num
         THEN [do_move |-> TRUE, move_reason |-> "today is a <day>"]
         ELSE [do_move |-> FALSE, move_reason |-> "today is not a <day>"]
    ELSE [do_move |-> FALSE, move_reason |-> "None"]

\* move_decision with the day names counted from 1.
move_decision_one_based(schedule, weekday_num) ==
    IF schedule = "daily" THEN [do_move |-> TRUE, move_reason |-> "the schedule is daily."]
    ELSE IF schedule = "weekday"
    THEN IF weekday_num > 0 /\ weekday_num < 6
         THEN [do_move |-> TRUE, move_reason |-> "today is a weekday"]
         ELSE [do_move |-> FALSE, move_reason |-> "today is not a weekday"]
    ELSE IF \E i \in 1..7 : DAY_NAMES[i] = schedule
    THEN IF day_index(schedule) + 1 = weekday_num
         THEN [do_move |-> TRUE, move_reason |-> "today is a <day>"]
         ELSE [do_move |-> FALSE, move_reason |-> "today is not a <day>"]
    ELSE [do_move |-> FALSE, move_reason |-> "None"]

\* Lines 113-130 of _moveSubjects: do_move and move_reason, set by three
\* independent tests in this order.
move_decision(schedule, weekday_num) ==
    LET d0 == [do_move |-> FALSE, move_reason |-> "None"]
        d1 == IF schedule = "daily"
              THEN [do_move |-> TRUE, move_reason |-> "the schedule is daily."]
              ELSE d0
        d2 == IF schedule = "weekday"
              THEN IF weekday_num > 0 /\ weekday_num < 6
                   THEN [do_move |-> TRUE, move_reason |-> "today is a weekday"]
                   ELSE [d1 EXCEPT !.move_reason = "today is not a weekday"]
              ELSE d1
        d3 == IF \E i \in 1..7 : DAY_NAMES[i] = schedule
              THEN IF day_index(schedule) = weekday_num
                   THEN [do_move |-> TRUE, move_reason |-> "today is a <day>"]
                   ELSE [d2 EXCEPT !.move_reason = "today is not a <day>"]
              ELSE d2
    IN  d3

-----------------------------------------------------------------------------
(* os.renames(old, new), as the standard library defines it *)

\* os.makedirs(head), called only when head does not exist: fails, creating
\* nothing, when a component of head is a file.
makedirs(f, head) ==
    LET prefixes == {SubSeq(head, 1, i) : i \in 1..Len(head)}
    IN  IF \E p \in prefixes : isfile(f, p)
        THEN [ok |-> FALSE, fs |-> f]
        ELSE [ok |-> TRUE,
              fs |-> f \cup {[path |-> p, kind |-> "dir", id |-> p] :
                             p \in {q \in prefixes : ~exists(f, q)}}]

\* The tree at old, carried to new, replacing what was at new.
Relocate(f, old, new) ==
    (f \ (Subtree(f, old) \cup Subtree(f, new)))
        \cup {[n EXCEPT !.path = new \o SubSeq(n.path, Len(old) + 1, Len(n.path))] :
              n \in Subtree(f, old)}

\* os.rename(old, new). On POSIX a file replaces a file and a directory
\* replaces an empty directory, silently; on Windows an existing new fails.
rename(f, os, old, new) ==
    LET fail == [ok |-> FALSE, fs |-> f]
        done == [ok |-> TRUE, fs |-> Relocate(f, old, new)]
    IN  IF ~exists(f, old) THEN fail
        ELSE IF Len(new) > 1 /\ ~isdir(f, split_head(new)) THEN fail
        ELSE IF ~exists(f, new) THEN done
        ELSE IF os = "nt" THEN fail
        ELSE IF isfile(f, old) /\ isfile(f, new) THEN done
        ELSE IF isdir(f, old) /\ isdir(f, new) /\ listdir(f, new) = {} THEN done
        ELSE fail

\* os.removedirs(name) with its OSError swallowed: name and then each parent
\* in turn is removed, up to the first that is not an empty directory.
RECURSIVE removedirs(_, _)
removedirs(f, name) ==
    IF name # <<>> /\ isdir(f, name) /\ listdir(f, name) = {}
    THEN removedirs({n \in f : n.path # name}, split_head(name))
    ELSE f

renames(f, os, old, new) ==
    LET head == split_head(new)
        made == IF head # <<>> /\ ~exists(f, head)
                THEN makedirs(f, head)
                ELSE [ok |-> TRUE, fs |-> f]
        moved == rename(made.fs, os, old, new)
    IN  IF ~made.ok THEN [ok |-> FALSE, fs |-> f]
        ELSE IF ~moved.ok THEN [ok |-> FALSE, fs |-> made.fs]
        ELSE [ok |-> TRUE, fs |-> removedirs(moved.fs, split_head(old))]

-----------------------------------------------------------------------------
(* SaturdayMorning._moveSubjects *)

\* The loop of lines 75-92 over entries: the first entry with a first entry
\* of its own. os.listdir raises on an entry that is not a directory.
RECURSIVE scan_nephews(_, _, _)
RECURSIVE inspect_nephew(_, _, _, _)
scan_nephews(f, src_dir, entries) ==
    IF entries = <<>> THEN [status |-> "none", entry |-> None, first_entry |-> None]
    ELSE IF ~isdir(f, join(src_dir, Head(entries)))
    THEN [status |-> "raise", entry |-> Head(entries), first_entry |-> None]
    ELSE inspect_nephew(f, src_dir, entries,
                        _get_first_entry(f, join(src_dir, Head(entries))))

\* Lines 79-92, for the first of entries and its first_entry.
inspect_nephew(f, src_dir, entries, first_entry) ==
    IF first_entry # None
    THEN [status |-> "found", entry |-> Head(entries), first_entry |-> first_entry]
    ELSE scan_nephews(f, src_dir, Tail(entries))

\* select_nephew with dst_dir left as it was (line 82 missing).
select_nephew_same_dst(src_dir, dst_dir, config, found) ==
    [status      |-> found.status,
     src_dir     |-> IF found.status = "found"
                     THEN join(src_dir, found.entry) ELSE src_dir,
     dst_dir     |-> dst_dir,
     first_entry |-> found.first_entry,
     config_opts |-> IF found.status = "found" /\ found.entry \in DOMAIN config
                     THEN dict_update(config[CONF_SECTION_DEFAULT], config[found.entry])
                     ELSE config[CONF_SECTION_DEFAULT]]

\* Lines 80-97, after the loop found what it found: the directories and the
\* options as the loop rebinds them.
select_nephew(src_dir, dst_dir, config, found) ==
    [status      |-> found.status,
     src_dir     |-> IF found.status = "found"
                     THEN join(src_dir, found.entry) ELSE src_dir,
     dst_dir     |-> IF found.status = "found"
                     THEN join(dst_dir, found.entry) ELSE dst_dir,
     first_entry |-> found.first_entry,
     config_opts |-> IF found.status = "found" /\ found.entry \in DOMAIN config
                     THEN dict_update(config[CONF_SECTION_DEFAULT], config[found.entry])
                     ELSE config[CONF_SECTION_DEFAULT]]

\* select_subject looking for a section to apply in siblings mode too.
select_subject_always_overrides(f, src_dir, dst_dir, config, entries) ==
    IF config[CONF_SECTION_DEFAULT].move = SUBJECT_NEPHEWS
    THEN select_nephew(src_dir, dst_dir, config, scan_nephews(f, src_dir, entries))
    ELSE [status      |-> "found",
          src_dir     |-> src_dir,
          dst_dir     |-> dst_dir,
          first_entry |-> entries[1],
          config_opts |-> IF entries[1] \in DOMAIN config
                          THEN dict_update(config[CONF_SECTION_DEFAULT],
                                           config[entries[1]])
                          ELSE config[CONF_SECTION_DEFAULT]]

\* Lines 72-102: the candidate and the options that apply to it.
select_subject(f, src_dir, dst_dir, config, entries) ==
    IF config[CONF_SECTION_DEFAULT].move = SUBJECT_NEPHEWS
    THEN select_nephew(src_dir, dst_dir, config, scan_nephews(f, src_dir, entries))
    ELSE [status      |-> "found",
          src_dir     |-> src_dir,
          dst_dir     |-> dst_dir,
          first_entry |-> entries[1],
          config_opts |-> config[CONF_SECTION_DEFAULT]]

\* What a call of _moveSubjects did (out), selected and decided, and the file
\* system and flag it leaves.
\*   out: "empty" (return, line 70), "no nephew" (return, line 97),
\*        "skip" (line 140), "dry run" (line 138), "moved" (line 136),
\*        or the exception raised.
Outcome(out, f, src_path, dst_path, config_opts, schedule, do_move) ==
    [out |-> out, fs |-> f, src_path |-> src_path, dst_path |-> dst_path,
     config_opts |-> config_opts, schedule |-> schedule, do_move |-> do_move,
     raised |-> out \notin {"empty", "no nephew", "skip", "dry run", "moved"},
     did |-> out \in {"dry run", "moved"}]

\* act passing over a schedule it does not know.
act_skips_unknown(f, dry, src_path, dst_path, config_opts, schedule, decision, renamed) ==
    IF decision.do_move
    THEN IF dry
         THEN Outcome("dry run", f, src_path, dst_path, config_opts, schedule, TRUE)
         ELSE Outcome(IF renamed.ok THEN "moved" ELSE "OSError", renamed.fs,
                      src_path, dst_path, config_opts, schedule, TRUE)
    ELSE Outcome("skip", f, src_path, dst_path, config_opts, schedule, FALSE)

\* act renaming in a dry run too.
act_ignores_dry_run(f, dry, src_path, dst_path, config_opts, schedule, decision, renamed) ==
    IF decision.do_move
    THEN Outcome(IF ~renamed.ok THEN "OSError" ELSE IF dry THEN "dry run" ELSE "moved",
                 renamed.fs, src_path, dst_path, config_opts, schedule, TRUE)
    ELSE Outcome(IF decision.move_reason # "None" THEN "skip" ELSE "Unknown schedule",
                 f, src_path, dst_path, config_opts, schedule, FALSE)

\* Lines 131-145, given what os.renames would do.
act(f, dry, src_path, dst_path, config_opts, schedule, decision, renamed) ==
    IF decision.do_move
    THEN IF dry
         THEN Outcome("dry run", f, src_path, dst_path, config_opts, schedule, TRUE)
         ELSE Outcome(IF renamed.ok THEN "moved" ELSE "OSError", renamed.fs,
                      src_path, dst_path, config_opts, schedule, TRUE)
    ELSE Outcome(IF decision.move_reason # "None" THEN "skip" ELSE "Unknown schedule",
                 f, src_path, dst_path, config_opts, schedule, FALSE)

\* Lines 102-145, for the candidate at src_path.
move_candidate(f, os, dry, weekday_num, src_path, dst_path, config_opts, schedule) ==
    IF schedule = ""
    THEN Outcome("No schedule specified", f, src_path, dst_path, config_opts,
                 schedule, FALSE)
    ELSE act(f, dry, src_path, dst_path, config_opts, schedule,
             move_decision(schedule, weekday_num),
             renames(f, os, src_path, dst_path))

\* Lines 93-107, for what lines 72-92 selected.
move_selected(f, os, dry, weekday_num, config, sel) ==
    IF sel.status = "found"
    THEN move_candidate(f, os, dry, weekday_num,
                        join(sel.src_dir, sel.first_entry),
                        join(sel.dst_dir, sel.first_entry),
                        sel.config_opts,
                        IF "schedule" \in DOMAIN sel.config_opts
                        THEN sel.config_opts.schedule ELSE "")
    ELSE Outcome(IF sel.status = "none" THEN "no nephew" ELSE "NotADirectoryError",
                 f, <<>>, <<>>, config[CONF_SECTION_DEFAULT], "", FALSE)

\* _moveSubjects(src_dir, dst_dir, config), entries being what
\* _get_ordered_entries(src_dir) returned.
_moveSubjects(f, os, dry, weekday_num, src_dir, dst_dir, config, entries) ==
    IF entries = <<>>
    THEN Outcome("empty", f, <<>>, <<>>, config[CONF_SECTION_DEFAULT], "", FALSE)
    ELSE move_selected(f, os, dry, weekday_num, config,
                       select_subject(f, src_dir, dst_dir, config, entries))

-----------------------------------------------------------------------------
(* The trees and configurations a run starts from *)

SRC == <<"s", "r", "c">>
DST == <<"d", "s", "t">>

\* self.src_dir, and the dst_dir every run is given.
src_dir == <<SRC>>
dst_dir == <<DST>>

X == <<"X">>
Y == <<"Y">>
Z == <<"Z">>
R == <<"R">>
S2 == <<"S", "2">>
S10 == <<"S", "1", "0">>
e1 == <<"e", "1">>
e2 == <<"e", "2">>
e10 == <<"e", "1", "0">>
hidden == <<".", "h">>

Node(path, kind) == [path |-> path, kind |-> kind, id |-> path]

\* The directories leading to path, path excluded.
Parents(path) == {Node(SubSeq(path, 1, i), "dir") : i \in 1..(Len(path) - 1)}

Dir(path) == Parents(path) \cup {Node(path, "dir")}
File(path) == Parents(path) \cup {Node(path, "file")}

\* What a scope directory holds besides its marker, as paths below it:
\* S2 with any of the files e2, e10, .h; S10, empty or with the file e1; a
\* file R.
S2Layouts == {{}} \cup {{<<S2>>} \cup {<<S2, k>> : k \in K} :
                          K \in SUBSET {e2, e10, hidden}}
S10Layouts == {{}, {<<S10>>}, {<<S10>>, <<S10, e1>>}}
RLayouts == {{}, {<<R>>}}
Layouts == {a \cup b \cup c : a \in S2Layouts, b \in S10Layouts, c \in RLayouts}

\* A scope at path with the layout: its marker and the layout's nodes.
Scope(path, layout) ==
    File(join(path, CONF_NAME))
        \cup UNION {IF Len(rel) = 1 /\ rel # <<R>>
                    THEN Dir(path \o rel) ELSE File(path \o rel) : rel \in layout}

\* A section from its lines, each <<option, value>>.
Section(lines) ==
    [k \in {l[1] : l \in lines} |-> (CHOOSE l \in lines : l[1] = k)[2]]

\* A configuration file from its sections' lines; a section with no line is
\* left out.
ConfFile(lines) ==
    [sec \in {n \in DOMAIN lines : lines[n] # {}} |-> Section(lines[sec])]

MoveLines == {{}, {<<"move", SUBJECT_SIBLINGS>>}, {<<"move", SUBJECT_NEPHEWS>>}}
ScheduleLines(values) == {{<<"schedule", v>>} : v \in values}

Schedules == {"", "daily", "weekday", "funday"} \cup {DAY_NAMES[i] : i \in 1..7}

\* Configuration files: the lines of [all], of [S2] and of [S10].
ConfFiles(all, s2, s10) ==
    {ConfFile((CONF_SECTION_DEFAULT :> a) @@ (S2 :> b) @@ (S10 :> c)) :
        a \in all, b \in s2, c \in s10}

\* What the destination holds before the first run, for a scope at src/X.
Destinations ==
    {{}, Dir(dst_dir), Dir(dst_dir \o <<X, S2>>), File(dst_dir \o <<X, S2>>),
     File(dst_dir \o <<X>>), File(dst_dir \o <<X, S2, e2>>),
     File(dst_dir \o <<X, S2, e10>>), Dir(dst_dir \o <<X, S2, e2>>),
     File(dst_dir \o <<X, R>>), File(dst_dir \o <<X, S2, hidden>>)}

Start(tree, conf, os, day, dry) ==
    [fs |-> tree, content |-> conf, os_name |-> os, today |-> day, dry_run |-> dry]

\* One scope, src/X: every layout under the ways of selecting.
Selections ==
    {Start(Dir(src_dir) \cup Scope(src_dir \o <<X>>, layout),
           join(src_dir \o <<X>>, CONF_NAME) :> conf, "posix", 1, dry) :
        layout \in Layouts,
        conf \in ConfFiles({m \cup s : m \in MoveLines,
                                       s \in ScheduleLines({"monday", "funday"})},
                           {{}} \cup ScheduleLines({"saturday"}),
                           {{}} \cup ScheduleLines({"", "daily"})),
        dry \in {FALSE}}

\* One scope, src/X: every schedule on every day of the week.
Weeks ==
    {Start(Dir(src_dir) \cup Scope(src_dir \o <<X>>, layout),
           join(src_dir \o <<X>>, CONF_NAME) :> conf, "posix", day, dry) :
        layout \in {{<<S2>>, <<S2, e2>>, <<S2, e10>>}},
        conf \in ConfFiles({m \cup s : m \in MoveLines,
                                       s \in {{}} \cup ScheduleLines(Schedules)},
                           {{}}, {{}}),
        day \in 0..6,
        dry \in BOOLEAN}

\* One scope, src/X: a destination that is not free.
Collisions ==
    {Start(Dir(src_dir) \cup Scope(src_dir \o <<X>>, layout) \cup dest,
           join(src_dir \o <<X>>, CONF_NAME) :> conf, os, 1, dry) :
        layout \in {{<<S2>>, <<S2, e2>>}, {<<S2>>, <<S2, e2>>, <<S2, e10>>},
                    {<<S2>>, <<S2, hidden>>, <<R>>}, {<<S2>>, <<R>>}},
        dest \in Destinations,
        conf \in ConfFiles({m \cup s : m \in MoveLines,
                                       s \in ScheduleLines({"daily"})},
                           {{}}, {{}}),
        os \in {"posix", "nt"},
        dry \in BOOLEAN}

\* Two scopes, at src/X/Z and src/Y, and a file src/R; or one, at src.
ScopeKinds ==
    {[layout |-> l, conf |-> c] :
        l \in {{}, {<<S2>>, <<S2, e2>>, <<S2, e10>>}, {<<S2>>, <<S10>>, <<S10, e1>>}},
        c \in ConfFiles({m \cup s : m \in MoveLines \ {{}},
                                    s \in ScheduleLines({"daily", "monday", ""})},
                        {{}}, {{}})}

Forests ==
    {Start(Dir(src_dir) \cup File(src_dir \o <<R>>)
               \cup Scope(src_dir \o <<X, Z>>, a.layout)
               \cup Scope(src_dir \o <<Y>>, b.layout),
           (join(src_dir \o <<X, Z>>, CONF_NAME) :> a.conf)
               @@ (join(src_dir \o <<Y>>, CONF_NAME) :> b.conf),
           "posix", day, dry) :
        a \in ScopeKinds, b \in ScopeKinds, day \in {1}, dry \in BOOLEAN}
    \cup
    {Start(Scope(src_dir, a.layout), join(src_dir, CONF_NAME) :> a.conf,
           "posix", day, dry) :
        a \in ScopeKinds, day \in {1, 2}, dry \in BOOLEAN}

\* A scope at src/X holding a directory Z that has a marker of its own.
Nested ==
    {Start(Scope(src_dir \o <<X>>, a.layout) \cup Scope(src_dir \o <<X, Z>>, b.layout),
           (join(src_dir \o <<X>>, CONF_NAME) :> a.conf)
               @@ (join(src_dir \o <<X, Z>>, CONF_NAME) :> b.conf),
           "posix", 1, FALSE) :
        a \in ScopeKinds,
        b \in {k \in ScopeKinds :
                  /\ k.layout \in {{}, {<<S2>>, <<S2, e2>>, <<S2, e10>>}}
                  /\ k.conf[CONF_SECTION_DEFAULT].schedule = "daily"}}

Starts == Selections \cup Weeks \cup Collisions \cup Forests \cup Nested

-----------------------------------------------------------------------------
(* The runs *)

\* Calls making each call twice.
Calls_twice(src, dst, entries) ==
    [i \in 1..(2 * Len(entries)) |->
        [src |-> join(src, entries[(i + 1) \div 2]),
         dst |-> join(dst, entries[(i + 1) \div 2])]]

\* The calls the loop of lines 58-62 makes for entries, in order (the isdir
\* test of line 60 is made when the call's turn comes).
Calls(src, dst, entries) ==
    [i \in 1..Len(entries) |->
        [src |-> join(src, entries[i]), dst |-> join(dst, entries[i])]]

\* What the log keeps of one call of _moveSubjects.
LogEntry(call, config, entries, r) ==
    [scope |-> call.src, dst |-> call.dst, move_set |-> config[CONF_SECTION_DEFAULT].move,
     entries |-> entries, out |-> r.out, src_path |-> r.src_path,
     dst_path |-> r.dst_path, config_opts |-> r.config_opts,
     schedule |-> r.schedule, do_move |-> r.do_move, raised |-> r.raised,
     before |-> fs, after |-> r.fs,
     flag_before |-> did_something, flag_after |-> (did_something \/ r.did)]

\* run without its line 39.
run_keeps_flag ==
    /\ pc \in {"idle", "done"}
    /\ runs < MaxRuns
    /\ did_something' = did_something
    /\ did_before' = did_something
    /\ stack' = <<[src |-> src_dir, dst |-> dst_dir]>>
    /\ pc' = "running"
    /\ log' = <<>>
    /\ nothing_to_do' = FALSE
    /\ fs0' = fs
    /\ runs' = runs + 1
    /\ UNCHANGED <<fs, content, os_name, today, dry_run>>
    /\ UNCHANGED keyvars

\* run(dst_dir) up to its call of _runOn, on the object as it is.
run ==
    /\ pc \in {"idle", "done"}
    /\ runs < MaxRuns
    /\ did_something' = FALSE
    /\ did_before' = did_something
    /\ stack' = <<[src |-> src_dir, dst |-> dst_dir]>>
    /\ pc' = "running"
    /\ log' = <<>>
    /\ nothing_to_do' = FALSE
    /\ fs0' = fs
    /\ runs' = runs + 1
    /\ UNCHANGED <<fs, content, os_name, today, dry_run>>
    /\ UNCHANGED keyvars

\* moved_subjects going on into the scope's entries after evaluating it.
moved_subjects_recursing(call, config, entries, r) ==
    /\ fs' = r.fs
    /\ did_something' = (did_something \/ r.did)
    /\ log' = Append(log, LogEntry(call, config, entries, r))
    /\ pc' = IF r.raised THEN "failed" ELSE pc
    /\ stack' = IF r.raised THEN <<>>
                ELSE Calls(call.src, call.dst, entries) \o Tail(stack)

\* moved_subjects with an exception kept to the scope that raised it.
moved_subjects_isolating(call, config, entries, r) ==
    /\ fs' = r.fs
    /\ did_something' = (did_something \/ r.did)
    /\ log' = Append(log, LogEntry(call, config, entries, r))
    /\ pc' = pc
    /\ stack' = Tail(stack)

\* Line 54, with r what the call of _moveSubjects did: an exception unwinds
\* every pending call.
moved_subjects(call, config, entries, r) ==
    /\ fs' = r.fs
    /\ did_something' = (did_something \/ r.did)
    /\ log' = Append(log, LogEntry(call, config, entries, r))
    /\ pc' = IF r.raised THEN "failed" ELSE pc
    /\ stack' = IF r.raised THEN <<>> ELSE Tail(stack)

\* Lines 47-54 and line 67: sorted is what _get_ordered_entries can return,
\* none when a key asserts.
found_config(call, config, sorted) ==
    IF sorted = {}
    THEN moved_subjects(call, config, <<>>,
             Outcome("AssertionError", fs, <<>>, <<>>,
                     config[CONF_SECTION_DEFAULT], "", FALSE))
    ELSE \E entries \in sorted :
            moved_subjects(call, config, entries,
                _moveSubjects(fs, os_name, dry_run, today, call.src, call.dst,
                              config, entries))

\* Lines 56-62: the calls for the entries are pending, in the order
\* os.listdir gave.
recurse(call) ==
    \E entries \in Orders(listdir(fs, call.src)) :
        /\ stack' = Calls(call.src, call.dst, entries) \o Tail(stack)
        /\ UNCHANGED <<fs, did_something, pc, log>>

\* One call _runOn(src, dst): the next of the pending calls.
_runOn ==
    /\ pc = "running"
    /\ stack # <<>>
    /\ IF ~isdir(fs, Head(stack).src)
       THEN /\ stack' = Tail(stack)
            /\ UNCHANGED <<fs, did_something, pc, log>>
       ELSE IF isfile(fs, join(Head(stack).src, CONF_NAME))
       THEN found_config(Head(stack),
                read_config(read_file(fs, content, join(Head(stack).src, CONF_NAME))),
                _get_ordered_entries(fs, Head(stack).src))
       ELSE recurse(Head(stack))
    /\ UNCHANGED <<content, os_name, today, dry_run, nothing_to_do, fs0, runs,
                   did_before>>
    /\ UNCHANGED keyvars

\* run(dst_dir) after _runOn has returned: lines 41-42, and exit 0.
run_returns ==
    /\ pc = "running"
    /\ stack = <<>>
    /\ nothing_to_do' = ~did_something
    /\ pc' = "done"
    /\ UNCHANGED <<fs, content, os_name, today, dry_run, did_something, stack,
                   log, fs0, runs, did_before>>
    /\ UNCHANGED keyvars

\* The dates a later invocation is given, after one on weekday d.
LaterDates(d) == {d, (d + 1) % 7}

\* main(): a new process, after the last one ended: a new object (its date
\* and dry_run from the command line) and its call of run.
main ==
    /\ pc \in {"done", "failed"}
    /\ runs < MaxRuns
    /\ today' \in LaterDates(today)
    /\ dry_run' \in BOOLEAN
    /\ did_something' = FALSE
    /\ did_before' = FALSE
    /\ stack' = <<[src |-> src_dir, dst |-> dst_dir]>>
    /\ pc' = "running"
    /\ log' = <<>>
    /\ nothing_to_do' = FALSE
    /\ fs0' = fs
    /\ runs' = runs + 1
    /\ UNCHANGED <<fs, content, os_name>>
    /\ UNCHANGED keyvars

Next == run \/ _runOn \/ run_returns \/ main

\* The object as SaturdayMorning(src_dir, date, dry_run) leaves it.
Init ==
    /\ \E s \in Starts :
        /\ fs = s.fs
        /\ content = s.content
        /\ os_name = s.os_name
        /\ today = s.today
        /\ dry_run = s.dry_run
    /\ did_something = FALSE
    /\ pc = "idle"
    /\ stack = <<>>
    /\ log = <<>>
    /\ nothing_to_do = FALSE
    /\ fs0 = fs
    /\ runs = 0
    /\ did_before = FALSE
    /\ names = <<>>
    /\ keys = <<>>
    /\ rekeys = <<>>

Spec == Init /\ [][Next]_vars

-----------------------------------------------------------------------------
(* _get_episode_key on its own *)

KeyDigits == {"0", "1", "2"}

\* Digit runs: every run of at most MaxShort of KeyDigits, and up to MaxLong
\* digits, a digit before or after zeros and all nines.
DigitRuns ==
    UNION {[1..n -> KeyDigits] : n \in 0..MaxShort}
        \cup UNION {{<<"1">> \o Zeros(n - 1), Zeros(n - 1) \o <<"2">>,
                     [i \in 1..n |-> "9"]} : n \in (MaxShort + 1)..MaxLong}

\* What comes before the digit run: nothing, a letter, digits and a letter.
KeyPrefixes == {<<>>, <<"S">>, <<"e", "1", "S">>}

\* Two names with the same prefix (no name is empty).
NamePairs ==
    {q \in {<<p \o a, p \o b>> : p \in KeyPrefixes, a \in DigitRuns, b \in DigitRuns} :
        q[1] # <<>> /\ q[2] # <<>>}

\* _get_episode_key(name) for the next of names.
key_of_name ==
    /\ Len(keys) < Len(names)
    /\ keys' = Append(keys, _get_episode_key(names[Len(keys) + 1]))
    /\ UNCHANGED <<names, rekeys>>
    /\ UNCHANGED objvars

\* _get_episode_key(_get_episode_key(name)) for the next of names: the
\* assertion of the inner call, when it fails, is the outcome.
key_of_key ==
    /\ Len(rekeys) < Len(keys)
    /\ rekeys' = Append(rekeys,
                        IF keys[Len(rekeys) + 1] = AssertionError
                        THEN AssertionError
                        ELSE _get_episode_key(keys[Len(rekeys) + 1]))
    /\ UNCHANGED <<names, keys>>
    /\ UNCHANGED objvars

KeyNext == key_of_name \/ key_of_key

\* The module imported and no object made; two names to be keyed.
KeyInit ==
    /\ fs = {}
    /\ content = <<>>
    /\ os_name = "posix"
    /\ today = 0
    /\ dry_run = FALSE
    /\ did_something = FALSE
    /\ pc = "idle"
    /\ stack = <<>>
    /\ log = <<>>
    /\ nothing_to_do = FALSE
    /\ fs0 = {}
    /\ runs = 0
    /\ did_before = FALSE
    /\ names \in NamePairs
    /\ keys = <<>>
    /\ rekeys = <<>>

KeySpec == KeyInit /\ [][KeyNext]_vars

-----------------------------------------------------------------------------
(* Vocabulary of the properties *)

\* The calls of _moveSubjects the current run has made so far.
Evaluations == {log[i] : i \in 1..Len(log)}

\* The evaluations that selected a candidate.
Selected == {e \in Evaluations : e.src_path # <<>>}

RecognisedSchedules == {"daily", "weekday"} \cup {DAY_NAMES[i] : i \in 1..7}

\* The path a source path is mirrored to under the destination root.
Mirror(path) == dst_dir \o SubSeq(path, Len(src_dir) + 1, Len(path))

\* The nodes that are at another path than when the run started, and among
\* them those not carried along by a relocated directory above them.
Relocated == {n \in fs : \E m \in fs0 : m.id = n.id /\ m.path # n.path}
RelocatedRoots ==
    {n \in Relocated :
        ~\E k \in Relocated : k.path # n.path /\ IsPrefix(k.path, n.path)}
PathAtStart(n) == (CHOOSE m \in fs0 : m.id = n.id).path

\* The names in a directory that do not start with a dot.
Shown(f, path) == {e \in listdir(f, path) : e[1] # "."}

\* The least of the names S in natural order.
NaturalFirst(S) ==
    CHOOSE e \in S : \A o \in S \ {e} :
        StrLess(_get_episode_key(e), _get_episode_key(o))

\* The lines of the default section of an evaluated scope's configuration file.
FileDefaults(e) ==
    LET file == read_file(e.before, content, join(e.scope, CONF_NAME))
    IN  IF CONF_SECTION_DEFAULT \in DOMAIN file
        THEN file[CONF_SECTION_DEFAULT] ELSE <<>>
FileSections(e) == read_file(e.before, content, join(e.scope, CONF_NAME))

-----------------------------------------------------------------------------
(* C1 *)

\* C1, as claimed: in a single run at most one candidate is relocated.
C1_AtMostOneMovePerRun == Cardinality(RelocatedRoots) <= 1

\* C1, as amended: in a single run at most one candidate is relocated for
\* each scope the traversal finds. Everything relocated since the run started
\* comes from below a scope the run evaluated, no scope is the origin of two
\* relocated candidates, and there are no more of them than evaluated scopes.
C1_AtMostOneMovePerScope ==
    /\ \A n \in RelocatedRoots :
          \E e \in Evaluations : IsPrefix(e.scope, PathAtStart(n))
    /\ \A e \in Evaluations :
          Cardinality({n \in RelocatedRoots : IsPrefix(e.scope, PathAtStart(n))}) <= 1
    /\ Cardinality(RelocatedRoots) <= Len(log)

\* A run that relocated two candidates, one from each of two scopes.
C1_Witness ==
    /\ pc = "done"
    /\ Cardinality(RelocatedRoots) = 2
    /\ Cardinality({e.scope : e \in Evaluations}) = 2

-----------------------------------------------------------------------------
(* C2 *)

\* C2, as claimed: a scope whose configuration file sets no `move` in its
\* default section is resolved as nephews, so a candidate it selects is two
\* levels below the scope directory (a child of a subject directory).
C2_DefaultMoveIsNephews ==
    \A e \in Selected :
        "move" \notin DOMAIN FileDefaults(e) => Len(e.src_path) = Len(e.scope) + 2

-----------------------------------------------------------------------------
(* C3 *)

\* Whether nothing stands in the way of creating path: nothing is at it and
\* no directory leading to it is a file.
Free(f, path) ==
    /\ ~exists(f, path)
    /\ \A i \in 1..Len(path) : ~isfile(f, SubSeq(path, 1, i))

\* The candidate of evaluation e is now at the mirror of its source path
\* (below the mirrored subject directory for nephews, below the mirrored
\* scope for siblings) and no longer at its source path.
Mirrored(e) ==
    /\ IsPrefix(e.scope, e.src_path)
    /\ Len(e.src_path) = Len(e.scope) + (IF e.move_set = SUBJECT_NEPHEWS THEN 2 ELSE 1)
    /\ \E n \in fs : \E m \in e.before :
          /\ n.path = Mirror(e.src_path)
          /\ m.path = e.src_path
          /\ m.id = n.id
    /\ ~exists(fs, e.src_path)

\* C3, as claimed: every scope whose schedule allows a move, not in a dry
\* run, has its candidate at the mirrored destination path and no longer at
\* its source path.
C3_MovedToMirror ==
    \A e \in Selected : (e.do_move /\ ~dry_run) => Mirrored(e)

\* C3, as amended: the same for every scope whose schedule allows a move,
\* not in a dry run, and whose destination path is free: the move then
\* succeeds, and a move that succeeds leaves the candidate at the mirrored
\* path and not at its source path.
C3_MovedToFreeMirror ==
    \A e \in Selected :
        /\ (e.do_move /\ ~dry_run /\ Free(e.before, Mirror(e.src_path)))
              => e.out = "moved"
        /\ e.out = "moved" => Mirrored(e)

\* The spec's end-to-end case: a nephew two levels below a scope that is one
\* level below the source root has been moved.
C3_Witness ==
    \E e \in Selected :
        /\ e.out = "moved"
        /\ e.move_set = SUBJECT_NEPHEWS
        /\ Len(e.scope) = Len(src_dir) + 1
        /\ Free(e.before, Mirror(e.src_path))
        /\ exists(fs, Mirror(e.src_path))

-----------------------------------------------------------------------------
(* C4 *)

\* C4: for every recognised schedule and every weekday number of the
\* reference date, the decision is to move exactly when the schedule is
\* daily, or weekday on days 1..5, or the name of the day; in every other
\* recognised case the scope is skipped.
C4_DecisionTable ==
    \A e \in Selected :
        e.schedule \in RecognisedSchedules =>
            /\ e.do_move <=> (e.schedule = "daily"
                              \/ (e.schedule = "weekday" /\ 1 <= today /\ today <= 5)
                              \/ e.schedule = DAY_NAMES[today + 1])
            /\ (~e.do_move) => (e.out = "skip")

\* The spec's case: on a Wednesday, a saturday schedule was evaluated and
\* did not move.
C4_Witness ==
    \E e \in Selected :
        today = 3 /\ e.schedule = "saturday" /\ ~e.do_move /\ e.out = "skip"

-----------------------------------------------------------------------------
(* C5 *)

\* C5: a scope with a candidate whose effective schedule is empty or is not
\* a recognised one raises ("No schedule specified", "Unknown schedule"),
\* moves nothing and ends the run in failure: it is never passed over.
C5_BadScheduleIsFatal ==
    \A e \in Selected :
        e.schedule \notin RecognisedSchedules =>
            /\ e.raised
            /\ e.out = (IF e.schedule = "" THEN "No schedule specified"
                                           ELSE "Unknown schedule")
            /\ e.after = e.before
            /\ fs = e.before
            /\ e.flag_after = e.flag_before
            /\ pc = "failed"

\* A run failed on a schedule that the selected subject's own section had
\* emptied.
C5_Witness ==
    /\ pc = "failed"
    /\ \E e \in Selected :
          /\ e.schedule = "" /\ e.out = "No schedule specified"
          /\ e.move_set = SUBJECT_NEPHEWS
          /\ FileDefaults(e).schedule = "monday"

-----------------------------------------------------------------------------
(* C6 *)

\* C6, as claimed: when the schedule allows a move (not a dry run) and the
\* candidate's destination path is occupied, the run fails and the trees
\* are as they were.
C6_OccupiedDestinationAborts ==
    \A e \in Selected :
        (e.do_move /\ ~dry_run /\ exists(e.before, e.dst_path)) =>
            /\ e.raised
            /\ pc = "failed"
            /\ e.after = e.before

-----------------------------------------------------------------------------
(* C7 *)

\* C7: a dry run changes nothing in the file system, and every scope whose
\* decision is to move sets the flag, so that the run does not report
\* "Nothing to do".
C7_DryRun ==
    dry_run =>
        /\ fs = fs0
        /\ \A e \in Evaluations : e.after = e.before
        /\ \A e \in Selected :
              e.do_move => /\ e.out = "dry run"
                           /\ e.flag_after
                           /\ did_something
                           /\ ~nothing_to_do

\* A dry run that ended having decided to move something it could have moved.
C7_Witness ==
    /\ dry_run
    /\ pc = "done"
    /\ ~nothing_to_do
    /\ \E e \in Selected :
          e.do_move /\ renames(fs, os_name, e.src_path, e.dst_path).fs # fs

-----------------------------------------------------------------------------
(* C8 *)

\* Whether a recognised schedule does not match weekday number day.
Mismatch(schedule, day) ==
    \/ schedule = "weekday" /\ day \in {0, 6}
    \/ \E i \in 1..7 : DAY_NAMES[i] = schedule /\ i # day + 1

\* C8: a scope whose schedule is recognised but does not match the
\* reference date does nothing to the file system, leaves the flag as it
\* was and raises nothing.
C8_MismatchIsQuiet ==
    \A e \in Selected :
        Mismatch(e.schedule, today) =>
            /\ e.out = "skip"
            /\ e.after = e.before
            /\ e.flag_after = e.flag_before
            /\ ~e.raised
            /\ (Len(log) = 1 => (fs = fs0 /\ ~did_something /\ pc # "failed"))

\* The spec's end-to-end case, schedule monday on a Tuesday, ran to its end.
C8_Witness ==
    /\ pc = "done"
    /\ nothing_to_do
    /\ \E e \in Selected : e.schedule = "monday" /\ today = 2

-----------------------------------------------------------------------------
(* C9 and C10 *)

\* The options of the default section of an evaluated scope whose file sets
\* `move`: the file's, with an empty schedule when it sets none.
DefaultOptions(e) ==
    [move     |-> FileDefaults(e).move,
     schedule |-> IF "schedule" \in DOMAIN FileDefaults(e)
                  THEN FileDefaults(e).schedule ELSE ""]

\* base with each option that section name sets, when the file has that
\* section, taking the section's value.
Overridden(e, base, name) ==
    IF name \in DOMAIN FileSections(e)
    THEN [k \in DOMAIN base \cup DOMAIN FileSections(e)[name] |->
            IF k \in DOMAIN FileSections(e)[name]
            THEN FileSections(e)[name][k] ELSE base[k]]
    ELSE base

\* The entries of an evaluated scope that have an entry of their own whose
\* name does not start with a dot.
WithChild(e) ==
    {d \in Shown(e.before, e.scope) : Shown(e.before, join(e.scope, d)) # {}}

\* Whether a comes before b in natural order.
NaturalLess(a, b) == StrLess(_get_episode_key(a), _get_episode_key(b))

\* C9: in nephews mode the subject directory selected is the first, in
\* natural order of the scope's entries not starting with a dot, that has
\* such an entry of its own, the candidate being one of those; the
\* directories before it are passed over without an error; and the options
\* are the default section's, overridden option by option by the section
\* named after the selected directory and by no other.
C9_NephewSelection ==
    \A e \in Evaluations :
        e.move_set = SUBJECT_NEPHEWS =>
            /\ e \in Selected =>
                  /\ WithChild(e) # {}
                  /\ Len(e.src_path) = Len(e.scope) + 2
                  /\ e.src_path = e.scope \o <<NaturalFirst(WithChild(e)),
                                                e.src_path[Len(e.src_path)]>>
                  /\ e.src_path[Len(e.src_path)]
                        \in Shown(e.before, split_head(e.src_path))
                  /\ e.config_opts = Overridden(e, DefaultOptions(e),
                                                NaturalFirst(WithChild(e)))
            /\ ( /\ WithChild(e) # {}
                 /\ \A d \in Shown(e.before, e.scope) :
                       NaturalLess(d, NaturalFirst(WithChild(e)))
                           => isdir(e.before, join(e.scope, d)) )
                  => e \in Selected /\ e.out # "NotADirectoryError"

\* S2, which has a section of its own, was passed over for having nothing
\* but a hidden entry; S10 was selected, and its section changed the schedule.
C9_Witness ==
    \E e \in Selected :
        /\ e.move_set = SUBJECT_NEPHEWS
        /\ e.out = "moved"
        /\ e.src_path = e.scope \o <<S10, e1>>
        /\ listdir(e.before, join(e.scope, S2)) = {hidden}
        /\ {S2, S10} \subseteq DOMAIN FileSections(e)
        /\ e.config_opts.schedule # FileDefaults(e).schedule
        /\ FileSections(e)[S2].schedule # FileSections(e)[S10].schedule

\* C10: in siblings mode the candidate is the scope directory's own first
\* entry, in natural order, among those not starting with a dot, it goes
\* to the scope's own destination directory, and the options are exactly the
\* default section's.
C10_SiblingSelection ==
    \A e \in Evaluations :
        (e.move_set = SUBJECT_SIBLINGS /\ Shown(e.before, e.scope) # {}) =>
            /\ e \in Selected
            /\ e.src_path = join(e.scope, NaturalFirst(Shown(e.before, e.scope)))
            /\ e.dst_path = join(e.dst, NaturalFirst(Shown(e.before, e.scope)))
            /\ e.config_opts = DefaultOptions(e)

\* The candidate S2 came before S10, has entries of its own and a section of
\* its own which would have kept it from moving; it moved, whole.
C10_Witness ==
    \E e \in Selected :
        /\ e.move_set = SUBJECT_SIBLINGS
        /\ e.out = "moved"
        /\ e.src_path = join(e.scope, S2)
        /\ isdir(e.before, join(e.scope, S10))
        /\ Shown(e.before, e.src_path) # {}
        /\ S2 \in DOMAIN FileSections(e)
        /\ FileSections(e)[S2].schedule # e.schedule
        /\ \A n \in Subtree(e.before, e.src_path) :
              \E m \in fs : m.id = n.id /\ IsPrefix(Mirror(e.src_path), m.path)

-----------------------------------------------------------------------------
(* C11 *)

\* The directories at or below the source root that hold a marker and have
\* no directory above them, from the source root down, that holds one.
MarkerDirs(f) ==
    {n.path : n \in {m \in f : /\ m.kind = "dir"
                               /\ IsPrefix(src_dir, m.path)
                               /\ isfile(f, join(m.path, CONF_NAME))}}
FirstMarkerDirs(f) ==
    {d \in MarkerDirs(f) :
        ~\E p \in MarkerDirs(f) : p # d /\ IsPrefix(p, d)}

\* The directories the calls of _runOn still pending are for.
Pending == {stack[i].src : i \in 1..Len(stack)}

\* C11: the directories evaluated as scopes are directories holding a
\* marker, each evaluated once; nothing at or beneath an evaluated scope, and
\* nothing beneath any directory holding a marker, is ever given to _runOn;
\* and a run that ends has evaluated every first directory with a marker on
\* each path of the tree it started from, whatever the outcomes were.
C11_TraversalStopsAtMarker ==
    /\ \A e \in Evaluations : isfile(e.before, join(e.scope, CONF_NAME))
    /\ \A i, j \in 1..Len(log) : log[i].scope = log[j].scope => i = j
    /\ \A i, j \in 1..Len(log) : IsPrefix(log[i].scope, log[j].scope) => i = j
    /\ \A e \in Evaluations : \A p \in Pending : ~IsPrefix(e.scope, p)
    /\ \A p \in Pending : \A d \in MarkerDirs(fs) : IsPrefix(d, p) => d = p
    /\ pc = "done" => {e.scope : e \in Evaluations} = FirstMarkerDirs(fs0)

\* A run that ended having evaluated src/X, which moved nothing for its
\* schedule, and not src/X/Z below it, which has a marker and a schedule
\* that would have moved its S2.
C11_Witness ==
    /\ pc = "done"
    /\ src_dir \o <<X, Z>> \in MarkerDirs(fs0)
    /\ isdir(fs0, src_dir \o <<X, Z, S2>>)
    /\ fs = fs0
    /\ \E e \in Evaluations : e.scope = src_dir \o <<X>> /\ e.out = "skip"
    /\ Len(log) = 1

-----------------------------------------------------------------------------
(* C12 *)

\* C12: a run that ends without an exception reports "Nothing to do"
\* exactly when none of its scopes decided to move (for real or in a dry
\* run); and the flag is reset when a run starts, whatever an earlier run on
\* the same object left in it.
C12_NothingToDo ==
    /\ pc = "done" => (nothing_to_do <=> ~\E e \in Evaluations : e.do_move)
    /\ (pc = "running" /\ log = <<>>) => ~did_something
    /\ \A i \in 1..Len(log) :
          log[i].flag_before <=> \E j \in 1..(i - 1) : log[j].do_move

\* A run reported "Nothing to do" on an object whose run before it had
\* moved something.
C12_Witness ==
    /\ pc = "done"
    /\ nothing_to_do
    /\ did_before
    /\ runs = 2
    /\ log # <<>>

-----------------------------------------------------------------------------
(* C13 *)

\* C13: a scope that raises is the last one the run evaluates: the run has
\* failed with no call pending, has not reported "Nothing to do", and the
\* file system is as that scope left it, each scope having started from
\* what the scope before it left (the run's own start for the first), so
\* that what earlier scopes moved stays moved.
C13_FailFast ==
    /\ \A i \in 1..Len(log) :
          log[i].raised => /\ i = Len(log)
                           /\ pc = "failed"
                           /\ stack = <<>>
                           /\ ~nothing_to_do
    /\ pc = "failed" => (log # <<>> /\ log[Len(log)].raised /\ ~nothing_to_do)
    /\ \A i \in 1..Len(log) :
          log[i].before = (IF i = 1 THEN fs0 ELSE log[i - 1].after)
    /\ log # <<>> => fs = log[Len(log)].after
    /\ \A i \in 1..Len(log) :
          log[i].out = "moved" =>
              \E n \in fs : \E m \in log[i].before :
                  m.path = log[i].src_path /\ m.id = n.id /\ n.path = log[i].dst_path

\* A run failed on its second scope, for its empty schedule, after its first
\* scope had moved its candidate, which is at its destination.
C13_Witness ==
    /\ pc = "failed"
    /\ Len(log) = 2
    /\ log[1].out = "moved"
    /\ log[2].out = "No schedule specified"
    /\ exists(fs, log[1].dst_path)
    /\ ~exists(fs, log[1].src_path)
    /\ fs # fs0

\* A run failed on the first of two scopes: the other, whose schedule would
\* have moved its candidate, was not evaluated.
C13_Aborted ==
    /\ pc = "failed"
    /\ Len(log) = 1
    /\ Cardinality(FirstMarkerDirs(fs0)) = 2
    /\ \E d \in FirstMarkerDirs(fs0) :
          /\ d # log[1].scope
          /\ read_file(fs, content, join(d, CONF_NAME))[CONF_SECTION_DEFAULT].schedule
                 = "daily"
          /\ Shown(fs, d) # {}

-----------------------------------------------------------------------------
(* C14 *)

\* C14, as claimed: in nephews mode the candidate is, of the entries of the
\* selected subject directory that do not start with a dot, the first in
\* natural order (of e2 and e10, e2).
C14_NephewChildNaturalFirst ==
    \A e \in Selected :
        e.move_set = SUBJECT_NEPHEWS =>
            e.src_path[Len(e.src_path)]
                = NaturalFirst(Shown(e.before, split_head(e.src_path)))

-----------------------------------------------------------------------------
(* C15 *)

\* Whether an evaluated scope has no candidate: no entry that does not start
\* with a dot or, in nephews mode, none that has such an entry of its own.
NoCandidate(e) ==
    \/ Shown(e.before, e.scope) = {}
    \/ e.move_set = SUBJECT_NEPHEWS /\ WithChild(e) = {}

\* C15, as claimed: a scope with no candidate is passed over, whatever its
\* schedule: nothing is raised, the file system is left as it was and the
\* run goes on.
C15_NoCandidateIsQuiet ==
    \A i \in 1..Len(log) :
        NoCandidate(log[i]) =>
            /\ ~log[i].raised
            /\ log[i].out \in {"empty", "no nephew"}
            /\ log[i].after = log[i].before
            /\ i = Len(log) => pc # "failed"

-----------------------------------------------------------------------------
(* C16 *)

\* The digit run a name ends with, what comes before it, and the number the
\* run writes.
Suffix(name) == SubSeq(name, Len(name) - number_suffix_len(name) + 1, Len(name))
Prefix(name) == SubSeq(name, 1, Len(name) - number_suffix_len(name))
RECURSIVE Value(_)
Value(digits) ==
    IF digits = <<>> THEN 0
    ELSE 10 * Value(split_head(digits)) + (ord(digits[Len(digits)]) - ord("0"))

\* C16: of two names with the same prefix that end with fewer than 6
\* digits, the keys are in the order of the numbers the digits write (and
\* equal when the numbers are); the key of a name that does not end with a
\* digit is the name; and the key of a key is that key.
C16_KeyOrder ==
    /\ \A i, j \in 1..Len(keys) :
          ( /\ Prefix(names[i]) = Prefix(names[j])
            /\ number_suffix_len(names[i]) \in 1..5
            /\ number_suffix_len(names[j]) \in 1..5 )
          => /\ StrLess(keys[i], keys[j])
                   <=> Value(Suffix(names[i])) < Value(Suffix(names[j]))
             /\ keys[i] = keys[j]
                   <=> Value(Suffix(names[i])) = Value(Suffix(names[j]))
    /\ \A i \in 1..Len(keys) :
          number_suffix_len(names[i]) = 0 => keys[i] = names[i]
    /\ \A i \in 1..Len(rekeys) : rekeys[i] = keys[i]

\* S2 and S10 have been keyed, and their keys keyed again: S2 is after S10
\* as a name and before it as a key.
C16_Witness ==
    /\ names = <<S2, S10>>
    /\ Len(rekeys) = 2
    /\ StrLess(names[2], names[1])
    /\ StrLess(keys[1], keys[2])
    /\ keys[1] # names[1]

-----------------------------------------------------------------------------
(* C20 *)

\* C20, as claimed: the key of a name that ends with 6 digits or more is an
\* assertion failure, and the key of a name that ends with fewer (and at
\* least one) is a key that ends with exactly 6 digits.
C20_AssertsFromSixDigits ==
    \A i \in 1..Len(keys) :
        /\ number_suffix_len(names[i]) >= 6 => keys[i] = AssertionError
        /\ number_suffix_len(names[i]) \in 1..5 =>
              keys[i] # AssertionError /\ number_suffix_len(keys[i]) = 6

\* C20, as amended: the key of a name that ends with more than 6 digits is
\* an assertion failure, and the key of a name that ends with 1 to 6 digits
\* is a key that ends with exactly 6 digits: the name's prefix, zeros, and
\* the name's digits (the name itself when it ends with 6 digits).
C20_AssertsFromSevenDigits ==
    \A i \in 1..Len(keys) :
        /\ number_suffix_len(names[i]) > 6 => keys[i] = AssertionError
        /\ number_suffix_len(names[i]) \in 1..6 =>
              /\ keys[i] # AssertionError
              /\ number_suffix_len(keys[i]) = 6
              /\ keys[i] = Prefix(names[i])
                              \o Zeros(6 - number_suffix_len(names[i]))
                              \o Suffix(names[i])

\* A name that ends with 6 digits has been keyed, its key being the name,
\* and one that ends with 7 has failed the assertion.
C20_Witness ==
    /\ Len(keys) = 2
    /\ number_suffix_len(names[1]) = 6
    /\ keys[1] = names[1]
    /\ number_suffix_len(names[2]) = 7
    /\ keys[2] = AssertionError

-----------------------------------------------------------------------------
(* C17 *)

\* The move an evaluated configuration file asks for, defaults applied.
MoveOf(f, d) ==
    read_config(read_file(f, content, join(d, CONF_NAME)))[CONF_SECTION_DEFAULT].move

\* The items of the scope d: in nephews mode the entries of its entries, else
\* its entries, those starting with a dot left out.
Items(f, d) ==
    IF MoveOf(f, d) = SUBJECT_NEPHEWS
    THEN UNION {{d \o <<s, c>> : c \in Shown(f, join(d, s))} : s \in Shown(f, d)}
    ELSE {join(d, s) : s \in Shown(f, d)}

\* The first item in selection order: subject directories in natural order,
\* their entries in the order _get_first_entry takes them in.
FirstItem(f, d) ==
    IF MoveOf(f, d) = SUBJECT_NEPHEWS
    THEN LET s == NaturalFirst({t \in Shown(f, d) : Shown(f, join(d, t)) # {}})
         IN  d \o <<s, _get_first_entry(f, join(d, s))>>
    ELSE join(d, NaturalFirst(Shown(f, d)))

\* Whether the run was started, for real, on a tree with the single scope d,
\* whose file sets the schedule daily in its default section and has no
\* other section, the mirrored paths of its items being free.
DripFeed(d) ==
    /\ MarkerDirs(fs0) = {d}
    /\ ~dry_run
    /\ DOMAIN read_file(fs0, content, join(d, CONF_NAME)) = {CONF_SECTION_DEFAULT}
    /\ read_config(read_file(fs0, content, join(d, CONF_NAME)))
           [CONF_SECTION_DEFAULT].schedule = "daily"
    /\ \A p \in Items(fs0, d) : Free(fs0, Mirror(p))

\* C17, as claimed, run by run: such a run ends without failing; when items
\* remain it has moved the first of them in selection order to its mirrored
\* path and nothing else, the other items remaining; when none remains it
\* has moved nothing and reported "Nothing to do".
C17_DripFeedProgress ==
    \A d \in MarkerDirs(fs0) :
        (DripFeed(d) /\ pc \in {"done", "failed"}) =>
            IF Items(fs0, d) = {}
            THEN pc = "done" /\ fs = fs0 /\ nothing_to_do
            ELSE /\ pc = "done"
                 /\ ~nothing_to_do
                 /\ ~exists(fs, FirstItem(fs0, d))
                 /\ \E n \in fs : \E m \in fs0 :
                       /\ m.path = FirstItem(fs0, d)
                       /\ n.id = m.id
                       /\ n.path = Mirror(m.path)
                       /\ RelocatedRoots = {n}
                 /\ Items(fs, d) = Items(fs0, d) \ {FirstItem(fs0, d)}

-----------------------------------------------------------------------------
(* C18 *)

\* C18, as claimed, run by run: when a run ends without an exception, every
\* file there was when it started is there once, as a file, at the path it
\* had or at the mirror of that path, and no two nodes are the same file.
C18_ContentConserved ==
    pc = "done" =>
        /\ \A m \in fs0 :
              m.kind = "file" =>
                  /\ Cardinality({n \in fs : n.id = m.id}) = 1
                  /\ \E n \in fs : /\ n.id = m.id
                                    /\ n.kind = "file"
                                    /\ n.path \in {m.path, Mirror(m.path)}
        /\ \A n, k \in fs : n.id = k.id => n = k

-----------------------------------------------------------------------------
(* C19 *)

\* C19: the name of a candidate never starts with a dot, in either mode;
\* and the marker of every scope the run evaluated, and of every scope of
\* the tree the run started from, is in its scope directory, the same file
\* as when the run started.
C19_MarkerStays ==
    /\ \A e \in Selected : e.src_path[Len(e.src_path)][1] # "."
    /\ \A e \in Evaluations :
          \E n \in fs : /\ n.path = join(e.scope, CONF_NAME)
                        /\ n.kind = "file"
                        /\ n \in e.before
                        /\ n \in fs0
    /\ \A d \in FirstMarkerDirs(fs0) :
          \E n \in fs : /\ n.path = join(d, CONF_NAME)
                        /\ n.kind = "file"
                        /\ n \in fs0

\* The second run in a row that moved an entry of a scope in siblings mode,
\* the marker being the first name of the scope directory in str order.
C19_Witness ==
    /\ pc = "done"
    /\ runs = 2
    /\ \E n \in fs0 : n.id # n.path /\ IsPrefix(dst_dir, n.path)
    /\ \E e \in Selected :
          /\ e.out = "moved"
          /\ e.move_set = SUBJECT_SIBLINGS
          /\ \A o \in listdir(e.before, e.scope) \ {CONF_NAME} :
                StrLess(CONF_NAME, o)
          /\ isfile(fs, join(e.scope, CONF_NAME))

====
